---- MODULE Spec2Model ----
(***************************************************************************)
(* Model of two leaf components:                                           *)
(*   crates/uv-git/src/sha.rs            GitOid / GitSha                   *)
(*   crates/puffin-workspace/src/workspace.rs   Workspace                  *)
(* Strings are sequences of bytes (sha.rs) or of characters (workspace.rs).*)
(***************************************************************************)
EXTENDS Integers, Sequences, FiniteSets, TLC

VARIABLES s1, s2, oid1, oid2, cmp, short,
          contents, pc, pyproject_toml, document, written, calls, last

oidvars == <<s1, s2, oid1, oid2, cmp, short>>

wsvars == <<contents, pc, pyproject_toml, document, written, calls, last>>

vars == <<oidvars, wsvars>>

(***************************************************************************)
(* Git object identifier (sha.rs)                                          *)
(***************************************************************************)

\* Capacity of the fixed buffer, `bytes: [u8; 40]`.
OidCapacity == 40

\* Upper end of the slice taken by to_short_string, `[0..16]`.
ShortLen == 16

\* Longest input string handed to from_str.
MaxInputLen == 41

\* ASCII bytes the input strings are made of ('a', 'b'); 0 is the buffer fill.
InputBytes == {97, 98}

\* An input of n bytes: first byte h, every further byte f.
GenInput(n, h, f) == [i \in 1..n |-> IF i = 1 THEN h ELSE f]

Inputs == {GenInput(n, h, f) : n \in 0..MaxInputLen, h \in InputBytes, f \in InputBytes}

NoOid == [tag |-> "None", err |-> "", len |-> 0, bytes |-> <<>>]

OidErr(e) == [tag |-> "Err", err |-> e, len |-> 0, bytes |-> <<>>]

\* Mutant of GitOidFromStr: the capacity test is off by one (>= instead of >).
GitOidFromStrOffByOne(s) ==
    IF Len(s) = 0 THEN OidErr("Empty")
    ELSE IF Len(s) >= OidCapacity THEN OidErr("TooLong")
    ELSE [tag |-> "Ok", err |-> "", len |-> Len(s),
          bytes |-> [i \in 1..OidCapacity |-> IF i <= Len(s) THEN s[i] ELSE 0]]

\* impl FromStr for GitOid: Empty, TooLong, or the bytes copied into a
\* zero-filled buffer with the length recorded.
GitOidFromStr(s) ==
    IF Len(s) = 0 THEN OidErr("Empty")
    ELSE IF Len(s) > OidCapacity THEN OidErr("TooLong")
    ELSE [tag |-> "Ok", err |-> "", len |-> Len(s),
          bytes |-> [i \in 1..OidCapacity |-> IF i <= Len(s) THEN s[i] ELSE 0]]

\* impl FromStr for GitSha: the newtype around GitOid::from_str.
GitShaFromStr(s) == GitOidFromStr(s)

\* GitOid::as_str: the logical slice bytes[..len].
as_str(oid) == SubSeq(oid.bytes, 1, oid.len)

\* impl Display for GitOid: to_string() is as_str().
to_string(oid) == as_str(oid)

NoShort == [tag |-> "None", val |-> <<>>]

\* GitSha::to_short_string: the string slice [0..16] panics when the string
\* is shorter than 16 bytes.
to_short_string(oid) ==
    IF ShortLen > Len(to_string(oid))
    THEN [tag |-> "Panic", val |-> <<>>]
    ELSE [tag |-> "Ok", val |-> SubSeq(to_string(oid), 1, ShortLen)]

\* Ordering of two integers (usize::cmp, u8::cmp).
CmpInt(a, b) == IF a < b THEN "Less" ELSE IF a > b THEN "Greater" ELSE "Equal"

\* Lexicographic comparison of two byte sequences (<[u8]>::cmp, [u8; 40]::cmp).
RECURSIVE LexCmp(_, _)
LexCmp(x, y) ==
    IF x = <<>> /\ y = <<>> THEN "Equal"
    ELSE IF x = <<>> THEN "Less"
    ELSE IF y = <<>> THEN "Greater"
    ELSE IF CmpInt(Head(x), Head(y)) # "Equal" THEN CmpInt(Head(x), Head(y))
    ELSE LexCmp(Tail(x), Tail(y))

\* Mutant of GitOidCmp: the fields are compared in the other order.
GitOidCmpBytesFirst(a, b) ==
    IF LexCmp(a.bytes, b.bytes) # "Equal" THEN LexCmp(a.bytes, b.bytes)
    ELSE CmpInt(a.len, b.len)

\* #[derive(PartialEq, Eq, PartialOrd, Ord)] on GitOid { len, bytes }: the
\* fields are compared in declaration order, len first, then the whole buffer.
GitOidCmp(a, b) ==
    IF CmpInt(a.len, b.len) # "Equal" THEN CmpInt(a.len, b.len)
    ELSE LexCmp(a.bytes, b.bytes)

(***************************************************************************)
(* Manifest text and editable tree (workspace.rs, toml_edit::Document)     *)
(*                                                                         *)
(* A manifest text is a sequence of tokens; a string value carries its     *)
(* characters.  "nl" is a line break with indentation, "nl0" a bare line   *)
(* break, "sp" a space.                                                    *)
(***************************************************************************)

Tok(t) == [t |-> t, v |-> <<>>]

Str(v) == [t |-> "str", v |-> v]

IsWs(tok) == tok.t \in {"nl", "nl0", "sp"}

At(toks, i) == IF 1 <= i /\ i <= Len(toks) THEN toks[i].t ELSE "eof"

\* Index after the maximal run of whitespace starting at i.
RECURSIVE WsEnd(_, _)
WsEnd(toks, i) == IF i <= Len(toks) /\ IsWs(toks[i]) THEN WsEnd(toks, i + 1) ELSE i

NoArray == [present |-> FALSE, entries |-> <<>>, trailing |-> <<>>, trailing_comma |-> FALSE]

ArrErr == [ok |-> FALSE, next |-> 0, arr |-> NoArray]

\* The elements of an array, read from token i on: each value keeps the
\* whitespace before and after it (its decor), the array keeps the text
\* before the closing bracket and whether the last value has a comma.
RECURSIVE ParseElems(_, _, _)
ParseElems(toks, i, acc) ==
    LET j == WsEnd(toks, i)
        pre == SubSeq(toks, i, j - 1)
    IN  IF At(toks, j) = "]"
        THEN [ok |-> TRUE, next |-> j + 1,
              arr |-> [present |-> TRUE, entries |-> acc, trailing |-> pre,
                       trailing_comma |-> acc # <<>>]]
        ELSE IF At(toks, j) \in {"str", "int"}
        THEN LET k == WsEnd(toks, j + 1)
                 e == [val |-> toks[j], pre |-> pre, suf |-> SubSeq(toks, j + 1, k - 1)]
             IN  IF At(toks, k) = ","
                 THEN ParseElems(toks, k + 1, Append(acc, e))
                 ELSE IF At(toks, k) = "]"
                 THEN [ok |-> TRUE, next |-> k + 1,
                       arr |-> [present |-> TRUE, entries |-> Append(acc, e),
                                trailing |-> <<>>, trailing_comma |-> FALSE]]
                 ELSE ArrErr
        ELSE ArrErr

NoProject == [kind |-> "absent", name |-> FALSE, deps |-> NoArray]

NoDocument == [comment |-> FALSE, project |-> NoProject]

DocErr == [ok |-> FALSE, doc |-> NoDocument]

\* The keys of the project table from token i on: an optional name, an
\* optional dependency array; in an inline table a comma separates them and
\* a closing brace ends them.
ParseProject(toks, i, kind, comment) ==
    LET inline == kind = "inline"
        hasName == At(toks, i) = "name=x"
        i2 == IF hasName THEN i + 1 ELSE i
        comma == inline /\ hasName /\ At(toks, i2) = ","
        i3 == IF comma THEN i2 + 1 ELSE i2
        hasDeps == At(toks, i3) = "dependencies=" /\ At(toks, i3 + 1) = "["
        r == IF hasDeps THEN ParseElems(toks, i3 + 2, <<>>)
             ELSE [ok |-> ~comma, next |-> i3, arr |-> NoArray]
        closed == IF inline THEN At(toks, r.next) = "}" /\ At(toks, r.next + 1) = "eof"
                  ELSE At(toks, r.next) = "eof"
    IN  IF r.ok /\ closed
        THEN [ok |-> TRUE,
              doc |-> [comment |-> comment,
                       project |-> [kind |-> kind, name |-> hasName, deps |-> r.arr]]]
        ELSE DocErr

\* contents.parse::<Document>(): the editable tree of a manifest text.
ParseDocument(toks) ==
    LET comment == At(toks, 1) = "#c"
        i == IF comment THEN 2 ELSE 1
    IN  CASE At(toks, i) = "eof" ->
                [ok |-> TRUE, doc |-> [comment |-> comment, project |-> NoProject]]
          [] At(toks, i) = "[project]" -> ParseProject(toks, i + 1, "table", comment)
          [] At(toks, i) = "project={" -> ParseProject(toks, i + 1, "inline", comment)
          [] At(toks, i) = "project=1" /\ At(toks, i + 1) = "eof" ->
                [ok |-> TRUE,
                 doc |-> [comment |-> comment,
                          project |-> [kind |-> "scalar", name |-> FALSE, deps |-> NoArray]]]
          [] OTHER -> DocErr

RECURSIVE AllStrings(_)
AllStrings(es) == es = <<>> \/ (Head(es).val.t = "str" /\ AllStrings(Tail(es)))

EntryVals(es) == [i \in 1..Len(es) |-> es[i].val]

\* toml_edit::de::from_str::<PyProjectToml>(): the typed view.  `project` is
\* optional; when present it is a table (standard or inline) whose
\* dependencies, when present, are an array of strings.
Deserialize(toks) ==
    LET r == ParseDocument(toks)
        p == r.doc.project
    IN  IF r.ok /\ p.kind # "scalar" /\ AllStrings(p.deps.entries)
        THEN [ok |-> TRUE,
              view |-> [project |-> p.kind # "absent", dependencies |-> EntryVals(p.deps.entries)]]
        ELSE [ok |-> FALSE, view |-> [project |-> FALSE, dependencies |-> <<>>]]

\* The values of an array with their decor, a comma between two values and
\* one after the last value when the array has a trailing comma.
RECURSIVE RenderElems(_, _)
RenderElems(es, tc) ==
    IF es = <<>> THEN <<>>
    ELSE Head(es).pre \o <<Head(es).val>> \o Head(es).suf
         \o (IF Len(es) > 1 \/ tc THEN <<Tok(",")>> ELSE <<>>)
         \o RenderElems(Tail(es), tc)

RenderArray(a) ==
    <<Tok("[")>> \o RenderElems(a.entries, a.trailing_comma) \o a.trailing \o <<Tok("]")>>

RenderProject(p) ==
    LET name == IF p.name THEN <<Tok("name=x")>> ELSE <<>>
        sep == IF p.kind = "inline" /\ p.name /\ p.deps.present THEN <<Tok(",")>> ELSE <<>>
        deps == IF p.deps.present THEN <<Tok("dependencies=")>> \o RenderArray(p.deps) ELSE <<>>
    IN  CASE p.kind = "absent" -> <<>>
          [] p.kind = "table" -> <<Tok("[project]")>> \o name \o deps
          [] p.kind = "inline" -> <<Tok("project={")>> \o name \o sep \o deps \o <<Tok("}")>>
          [] OTHER -> <<Tok("project=1")>>

\* Mutant of DocumentToString: the dependency array is written in the
\* multi-line layout whatever its decor.
DocumentToStringNormalised(doc) ==
    (IF doc.comment THEN <<Tok("#c")>> ELSE <<>>)
    \o RenderProject([doc.project EXCEPT
          !.deps.entries = [i \in 1..Len(@) |-> [@[i] EXCEPT !.pre = <<Tok("nl")>>, !.suf = <<>>]],
          !.deps.trailing = IF doc.project.deps.present THEN <<Tok("nl0")>> ELSE <<>>,
          !.deps.trailing_comma = doc.project.deps.entries # <<>>])

\* self.document.to_string(): the text of the editable tree.
DocumentToString(doc) ==
    (IF doc.comment THEN <<Tok("#c")>> ELSE <<>>) \o RenderProject(doc.project)

(***************************************************************************)
(* Requirement specifiers and package names                                *)
(***************************************************************************)

Letters == {"f", "o", "F"}

Digits == {"1", "2"}

Seps == {"-", "_", "."}

Lower(c) == IF c = "F" THEN "f" ELSE c

\* Index after the maximal run of name characters starting at i.
RECURSIVE NameEnd(_, _)
NameEnd(t, i) ==
    IF i <= Len(t) /\ t[i] \in Letters \cup Digits \cup Seps THEN NameEnd(t, i + 1) ELSE i

\* Requirement::from_str: a name that starts and ends with a letter or
\* digit, then nothing or "==" and a version digit.
RequirementFromStr(t) ==
    LET n == NameEnd(t, 1) - 1
        rest == SubSeq(t, n + 1, Len(t))
        ok == /\ n >= 1
              /\ t[1] \in Letters \cup Digits
              /\ t[n] \in Letters \cup Digits
              /\ \/ rest = <<>>
                 \/ Len(rest) = 3 /\ rest[1] = "=" /\ rest[2] = "=" /\ rest[3] \in Digits
    IN  [ok |-> ok, name |-> IF ok THEN SubSeq(t, 1, n) ELSE <<>>]

\* PackageName::normalize: lowercase, each run of "-", "_", "." becomes "-".
RECURSIVE Normalize(_)
Normalize(n) ==
    IF n = <<>> THEN <<>>
    ELSE IF Head(n) \in Seps
    THEN IF Len(n) > 1 /\ n[2] \in Seps
         THEN Normalize(Tail(n))
         ELSE <<"-">> \o Normalize(Tail(n))
    ELSE <<Lower(Head(n))>> \o Normalize(Tail(n))

(***************************************************************************)
(* Workspace::add_dependency                                               *)
(***************************************************************************)

\* format_multiline_array: every value on a line of its own, a comma after
\* the last value, the closing bracket on its own line.
format_multiline_array(a) ==
    [present |-> TRUE,
     entries |-> [i \in 1..Len(a.entries) |->
                    [val |-> a.entries[i].val, pre |-> <<Tok("nl")>>, suf |-> <<>>]],
     trailing |-> <<Tok("nl0")>>,
     trailing_comma |-> TRUE]

\* A value made from the specifier text, without decor.
NewValue(dep) == [val |-> Str(dep), pre |-> <<>>, suf |-> <<>>]

\* The closure of `iter.position`: the item is a string, parses as a
\* requirement and has the normalized name of the new requirement.
Matches(item, req) ==
    /\ item.val.t = "str"
    /\ RequirementFromStr(item.val.v).ok
    /\ Normalize(req.name) = Normalize(RequirementFromStr(item.val.v).name)

\* Mutant of Position: the scan never finds an entry.
PositionNone(es, req) == 0

\* iter.position(..): the index of the first matching entry, 0 for None.
Position(es, req) ==
    IF \E i \in 1..Len(es) : Matches(es[i], req)
    THEN CHOOSE i \in 1..Len(es) :
            Matches(es[i], req) /\ \A j \in 1..(i - 1) : ~Matches(es[j], req)
    ELSE 0

\* The array holding only the new entry, multi-line.
NewDependencies(dep) ==
    format_multiline_array([NoArray EXCEPT !.present = TRUE, !.entries = <<NewValue(dep)>>])

\* The structural edit of add_dependency, after the specifier has parsed.
EditDocument(doc, dep, req) ==
    LET project == doc.project
        index == Position(project.deps.entries, req)
    IN  IF project.kind = "absent"
        THEN \* No `project` table.
             [res |-> "Ok",
              doc |-> [doc EXCEPT !.project =
                          [kind |-> "table", name |-> FALSE, deps |-> NewDependencies(dep)]]]
        ELSE IF project.kind # "table"
        THEN \* as_table_mut() is None for an inline table: unwrap() panics.
             [res |-> "Panic", doc |-> doc]
        ELSE IF ~project.deps.present
        THEN \* No `dependencies` array.
             [res |-> "Ok", doc |-> [doc EXCEPT !.project.deps = NewDependencies(dep)]]
        ELSE IF index # 0
        THEN [res |-> "Ok",
              doc |-> [doc EXCEPT !.project.deps =
                          format_multiline_array(
                              [@ EXCEPT !.entries = [@ EXCEPT ![index] = NewValue(dep)]])]]
        ELSE [res |-> "Ok",
              doc |-> [doc EXCEPT !.project.deps =
                          format_multiline_array(
                              [@ EXCEPT !.entries = Append(@, NewValue(dep))])]]

\* Mutant of add_dependency: the tree is edited before the specifier's parse
\* result is looked at.
add_dependency_edit_first(doc, dep) ==
    LET req == RequirementFromStr(dep)
        r == EditDocument(doc, dep, req)
    IN  IF ~req.ok THEN [res |-> IF r.res = "Panic" THEN "Panic" ELSE "Err", doc |-> r.doc]
        ELSE r

\* Workspace::add_dependency: the specifier is parsed first (`?` returns the
\* error), then the tree is edited.
add_dependency(doc, dep) ==
    LET req == RequirementFromStr(dep)
    IN  IF ~req.ok THEN [res |-> "Err", doc |-> doc]
        ELSE EditDocument(doc, dep, req)

(***************************************************************************)
(* Manifest texts read from disk and specifiers passed to add_dependency   *)
(***************************************************************************)

\* Longest dependency array of a manifest read from disk.
MaxInitDeps == 2

\* Most add_dependency calls on one workspace.
MaxCalls == 2

\* Values of the dependency arrays read from disk: two requirements, a
\* string that is no requirement, a number.
InitVals ==
    {Str(<<"F", "=", "=", "2">>), Str(<<"f", "-", "o">>), Str(<<"!">>), Tok("int")}

\* Specifier texts passed to add_dependency; the last two are no requirements.
Specs ==
    {<<"f", "=", "=", "1">>, <<"F">>, <<"f", "_", ".", "o">>, <<"o">>,
     <<"!">>, <<"f", "-">>}

Styles == {"compact", "spaced", "multi"}

RECURSIVE GenElems(_, _, _)
GenElems(vals, style, first) ==
    IF vals = <<>> THEN <<>>
    ELSE LET v == <<Head(vals)>>
             comma == IF Len(vals) = 1 THEN <<>> ELSE <<Tok(",")>>
         IN  (CASE style = "compact" -> v \o comma
                [] style = "spaced" ->
                     (IF first THEN <<>> ELSE <<Tok("sp")>>) \o v \o <<Tok("sp")>> \o comma
                [] OTHER -> <<Tok("nl")>> \o v \o <<Tok(",")>>)
             \o GenElems(Tail(vals), style, FALSE)

\* The text of an array in one of three layouts.
GenArray(vals, style) ==
    <<Tok("[")>> \o GenElems(vals, style, TRUE)
    \o (IF style = "multi" THEN <<Tok("nl0")>> ELSE <<>>) \o <<Tok("]")>>

ValLists == UNION {[1..k -> InitVals] : k \in 0..MaxInitDeps}

Arrays == {GenArray(vals, style) : vals \in ValLists, style \in Styles}

Bodies ==
    {<<>>, <<Tok("project=1")>>,
     <<Tok("[project]"), Tok("name=x")>>,
     <<Tok("project={"), Tok("name=x"), Tok("}")>>,
     <<Tok("[project]"), Tok("name=x"), Tok("dependencies="), Tok("["), Str(<<"f">>)>>}
    \cup {<<Tok("[project]"), Tok("name=x"), Tok("dependencies=")>> \o a : a \in Arrays}
    \cup {<<Tok("project={"), Tok("name=x"), Tok(","), Tok("dependencies=")>> \o a
            \o <<Tok("}")>> : a \in Arrays}

Texts == Bodies \cup {<<Tok("#c")>> \o b : b \in Bodies}

NoView == [project |-> FALSE, dependencies |-> <<>>]

NoCall == [dep |-> <<>>, res |-> "None", pre |-> NoDocument]

OidIdle ==
    /\ s1 = <<>>
    /\ s2 = <<>>
    /\ oid1 = NoOid
    /\ oid2 = NoOid
    /\ cmp = "None"
    /\ short = NoShort

WsIdle ==
    /\ contents = <<>>
    /\ pc = "idle"
    /\ pyproject_toml = NoView
    /\ document = NoDocument
    /\ written = <<Tok("none")>>
    /\ calls = <<>>
    /\ last = NoCall

Init ==
    /\ OidIdle
    /\ contents \in Texts
    /\ pc = "start"
    /\ pyproject_toml = NoView
    /\ document = NoDocument
    /\ written = <<Tok("none")>>
    /\ calls = <<>>
    /\ last = NoCall

\* impl TryFrom<&Path> for Workspace: the typed view, then the tree.
TryFrom ==
    /\ pc = "start"
    /\ LET view == Deserialize(contents)
           tree == ParseDocument(contents)
       IN  IF view.ok /\ tree.ok
           THEN /\ pc' = "loaded"
                /\ pyproject_toml' = view.view
                /\ document' = tree.doc
           ELSE /\ pc' = "failed"
                /\ UNCHANGED <<pyproject_toml, document>>
    /\ UNCHANGED <<contents, written, calls, last>>
    /\ UNCHANGED oidvars

\* Workspace::add_dependency(dependency).
AddDependency(dep) ==
    /\ pc = "loaded"
    /\ Len(calls) < MaxCalls
    /\ LET r == add_dependency(document, dep)
       IN  /\ document' = r.doc
           /\ pc' = IF r.res = "Panic" THEN "panicked" ELSE "loaded"
           /\ last' = [dep |-> dep, res |-> r.res, pre |-> document]
    /\ calls' = Append(calls, dep)
    /\ UNCHANGED <<contents, pyproject_toml, written>>
    /\ UNCHANGED oidvars

\* Workspace::save / Workspace::write: the text of the tree is written; the
\* save ends the life of the workspace.
Save ==
    /\ pc = "loaded"
    /\ written' = DocumentToString(document)
    /\ pc' = "saved"
    /\ UNCHANGED <<contents, pyproject_toml, document, calls, last>>
    /\ UNCHANGED oidvars

Next == TryFrom \/ (\E dep \in Specs : AddDependency(dep)) \/ Save

Spec == Init /\ [][Next]_vars

InitOid ==
    /\ WsIdle
    /\ s1 \in Inputs
    /\ s2 \in Inputs
    /\ oid1 = NoOid
    /\ oid2 = NoOid
    /\ cmp = "None"
    /\ short = NoShort

\* Both inputs are parsed.
FromStr ==
    /\ oid1.tag = "None"
    /\ oid1' = GitShaFromStr(s1)
    /\ oid2' = GitShaFromStr(s2)
    /\ UNCHANGED <<s1, s2, cmp, short>>
    /\ UNCHANGED wsvars

\* to_short_string on the first identifier.
ToShortString ==
    /\ oid1.tag = "Ok"
    /\ short.tag = "None"
    /\ short' = to_short_string(oid1)
    /\ UNCHANGED <<s1, s2, oid1, oid2, cmp>>
    /\ UNCHANGED wsvars

\* The two identifiers are compared.
Compare ==
    /\ oid1.tag = "Ok"
    /\ oid2.tag = "Ok"
    /\ cmp = "None"
    /\ cmp' = GitOidCmp(oid1, oid2)
    /\ UNCHANGED <<s1, s2, oid1, oid2, short>>
    /\ UNCHANGED wsvars

NextOid == FromStr \/ ToShortString \/ Compare

SpecOid == InitOid /\ [][NextOid]_vars

Min(a, b) == IF a < b THEN a ELSE b

\* C1: for every successfully parsed identifier, to_short_string returns the
\* first min(length, 16) characters of its canonical string and never panics.
C1_ShortStringClamped ==
    short.tag # "None" =>
        /\ short.tag = "Ok"
        /\ short.val = SubSeq(s1, 1, Min(Len(s1), ShortLen))

\* C2: parsing succeeds iff 1 <= len(s) <= 40; the empty string gives Empty,
\* a longer string gives TooLong, and there is no other outcome.
C2_ParseOutcome ==
    oid1.tag # "None" =>
        /\ (oid1.tag = "Ok") <=> (1 <= Len(s1) /\ Len(s1) <= 40)
        /\ Len(s1) = 0 => (oid1.tag = "Err" /\ oid1.err = "Empty")
        /\ Len(s1) > 40 => (oid1.tag = "Err" /\ oid1.err = "TooLong")
        /\ oid1.tag = "Ok" => (oid1.len = Len(s1) /\ to_string(oid1) = s1)

C2_Witness ==
    /\ oid1.tag = "Ok" /\ Len(s1) = 40
    /\ oid2.tag = "Err" /\ oid2.err = "TooLong" /\ Len(s2) = 41

\* C3 (as claimed): the comparison of two identifiers is the byte-wise
\* lexicographic comparison of the strings they were parsed from.
C3_CmpIsLexOfSlices ==
    cmp # "None" => cmp = LexCmp(s1, s2)

\* C3 (amended): identifiers are equal exactly when their strings are equal;
\* the ordering compares the logical lengths first and is the byte-wise
\* lexicographic comparison of the strings only when the lengths are equal.
C3_CmpIsLenThenLex ==
    cmp # "None" =>
        /\ (cmp = "Equal") <=> (s1 = s2)
        /\ Len(s1) # Len(s2) => cmp = CmpInt(Len(s1), Len(s2))
        /\ Len(s1) = Len(s2) => cmp = LexCmp(s1, s2)

C3_Witness ==
    /\ cmp = "Less"
    /\ Len(s1) < Len(s2)
    /\ LexCmp(s1, s2) = "Greater"

(***************************************************************************)
(* Properties of the workspace                                             *)
(***************************************************************************)

Called == last.res # "None"

LastReq == RequirementFromStr(last.dep)

PreEntries == last.pre.project.deps.entries

PostEntries == document.project.deps.entries

\* The entry parses as a requirement with the normalized name of the text.
SameName(entry, dep) ==
    /\ entry.val.t = "str"
    /\ RequirementFromStr(entry.val.v).ok
    /\ RequirementFromStr(dep).ok
    /\ Normalize(RequirementFromStr(entry.val.v).name) = Normalize(RequirementFromStr(dep).name)

HasMatch == \E i \in 1..Len(PreEntries) : SameName(PreEntries[i], last.dep)

FirstMatch ==
    CHOOSE i \in 1..Len(PreEntries) :
        SameName(PreEntries[i], last.dep) /\ \A j \in 1..(i - 1) : ~SameName(PreEntries[j], last.dep)

\* C4: a call whose specifier does not parse returns an error and leaves the
\* document, and so its text, exactly as it was before the call.
C4_InvalidLeavesDocument ==
    (Called /\ ~LastReq.ok) =>
        /\ last.res = "Err"
        /\ document = last.pre
        /\ DocumentToString(document) = DocumentToString(last.pre)

C4_Witness ==
    /\ last.res = "Err"
    /\ last.pre.project.kind = "absent"
    /\ document.project.kind = "absent"

\* C5: once the specifier has parsed, the call completes successfully
\* whatever the shape of the project entry.
C5_ValidAlwaysCompletes ==
    (Called /\ LastReq.ok) => last.res = "Ok"

\* C6: upserting the same specifier once more leaves the text of the
\* document as it is after the first upsert.
C6_Idempotent ==
    Called =>
        LET again == add_dependency(document, last.dep)
        IN  /\ again.res = last.res
            /\ DocumentToString(again.doc) = DocumentToString(document)

C6_Witness ==
    /\ last.res = "Ok"
    /\ last.pre.project.deps.present
    /\ ~HasMatch
    /\ Len(PostEntries) = Len(PreEntries) + 1

\* C7: when the list holds an entry with the normalized name of the new
\* specifier, the first such entry is replaced at its index by the new text,
\* the length is unchanged and every other entry keeps value and position.
C7_ReplacesFirstMatch ==
    (Called /\ LastReq.ok /\ last.pre.project.deps.present /\ HasMatch) =>
        /\ Len(PostEntries) = Len(PreEntries)
        /\ PostEntries[FirstMatch].val = Str(last.dep)
        /\ \A j \in 1..Len(PreEntries) :
              j # FirstMatch => PostEntries[j].val = PreEntries[j].val

\* C8: when the list exists and no parseable entry has the normalized name of
\* the new specifier, the new text is appended as the last entry and every
\* earlier entry keeps its value and index.
C8_AppendsWhenNoMatch ==
    (Called /\ LastReq.ok /\ last.pre.project.deps.present /\ ~HasMatch) =>
        /\ Len(PostEntries) = Len(PreEntries) + 1
        /\ PostEntries[Len(PostEntries)].val = Str(last.dep)
        /\ \A j \in 1..Len(PreEntries) : PostEntries[j].val = PreEntries[j].val

\* C9: a document on which add_dependency has not been called renders, and
\* is saved, as the very text it was constructed from.
C9_RoundTrip ==
    /\ (pc = "loaded" /\ calls = <<>>) => DocumentToString(document) = contents
    /\ (pc = "saved" /\ calls = <<>>) => written = contents

C9_Witness ==
    /\ pc = "saved"
    /\ calls = <<>>
    /\ Len(document.project.deps.entries) = 2
    /\ document.project.deps.entries[2].suf # <<>>
    /\ document.comment

NameOf(text) == Normalize(RequirementFromStr(text).name)

\* The texts of a list, one per normalized name, in order of first
\* appearance, each name with its latest text.
RECURSIVE Upserted(_, _)
Upserted(list, texts) ==
    IF texts = <<>> THEN list
    ELSE LET t == Head(texts)
             known == \E i \in 1..Len(list) : NameOf(list[i]) = NameOf(t)
             next == IF known
                     THEN [i \in 1..Len(list) |->
                             IF NameOf(list[i]) = NameOf(t) THEN t ELSE list[i]]
                     ELSE Append(list, t)
         IN  Upserted(next, Tail(texts))

IsRequirement(text) == RequirementFromStr(text).ok

InitialEntries == ParseDocument(contents).doc.project.deps.entries

InitialTexts == [i \in 1..Len(InitialEntries) |-> InitialEntries[i].val.v]

\* The manifest read from disk has no project table, or its dependency list
\* holds requirements with pairwise distinct normalized names.
DistinctStart ==
    LET p == ParseDocument(contents).doc.project
    IN  \/ p.kind = "absent"
        \/ /\ p.deps.present
           /\ \A i \in 1..Len(InitialTexts) : IsRequirement(InitialTexts[i])
           /\ \A i, j \in 1..Len(InitialTexts) :
                 i # j => NameOf(InitialTexts[i]) # NameOf(InitialTexts[j])

\* C10: from such a manifest, after any sequence of calls the list holds one
\* entry for each normalized name present initially or upserted so far, in
\* order of first appearance, each upserted name with its latest text; calls
\* with a specifier that does not parse change nothing and the list never
\* gets shorter.
C10_OneEntryPerName ==
    (pc \in {"loaded", "saved", "panicked"} /\ DistinctStart) =>
        /\ [i \in 1..Len(PostEntries) |-> PostEntries[i].val]
             = [i \in 1..Len(Upserted(InitialTexts, SelectSeq(calls, IsRequirement))) |->
                   Str(Upserted(InitialTexts, SelectSeq(calls, IsRequirement))[i])]
        /\ Len(PostEntries) >= Len(InitialTexts)

====
